---- MODULE Spec2Model ----
(***************************************************************************)
(* Model of the ObserverAI session-scoped decision tracker                 *)
(* (backend/observer/core/observer.py) and of the callers that drive it    *)
(* (the `with observer.session(...)` scopes of the adapters and examples). *)
(*                                                                         *)
(* Python values are encoded as follows:                                   *)
(*   - None in a string slot (session name, current_session) is NoneId;    *)
(*   - None in a datetime slot (end_time) is NoTime;                       *)
(*   - None in a mapping slot (metadata argument) is PyNone;               *)
(*   - a dict is a TLA+ function (record) over the keys it holds;          *)
(*   - datetime.now() is the value of the clock variable `now`.            *)
(***************************************************************************)
EXTENDS Integers, Sequences, FiniteSets, TLC

(***************************************************************************)
(* Bounds of the model.                                                    *)
(***************************************************************************)
MaxTime == 1
MaxDecisions == 2
MaxDepth == 1
MaxNesting == 2
MaxAgents == 3
MaxLines == 4

(***************************************************************************)
(* Encodings of Python's None and of the empty dict.                       *)
(***************************************************************************)
NoneId == "<None>"
NoTime == -1
PyNone == [py_none |-> TRUE]
EmptyMap == <<>>

(***************************************************************************)
(* Input domains.                                                          *)
(***************************************************************************)
Flows == {1, 2}
SessionNames == {"workflow_1"}
NameArgs == SessionNames \cup {NoneId, ""}
\* The argument tuples track_decision is called with:
\* <<agent_id, inputs, outputs, metadata>>, metadata omitted in the first.
TrackArgs ==
    {<<"agentA", [task |-> "t1"], [result |-> "r1"], PyNone>>,
     <<"agentB", [task |-> "t1"], [result |-> "r2"],
       [success |-> TRUE, response_time |-> 1]>>}
Uuids == {"uuid_1"}
\* The ways the body of a `with observer.session(...)` block ends: a return
\* (falling off the end of the block or an early return, which the context
\* manager cannot tell apart), an exception raised by the body, or the
\* cancellation of the enclosing task (an exception thrown into the body).
ExitKinds == {"return", "error", "cancel"}

VARIABLES observations, current_session, now, scopes, result, wf, conv

\* The Observer and its callers' scopes.
core == <<observations, current_session, now, scopes, result>>
\* wf: the position of a wrapped_run coroutine of SwarmObserver (swarms.py).
\* conv: the input and output of an adapter conversion.
aux == <<wf, conv>>

vars == <<observations, current_session, now, scopes, result, wf, conv>>

SessionIds == SessionNames \cup Uuids
\* The identifiers get_session_metrics is asked about: every identifier a
\* session can have, and one that no session has.
QueryIds == SessionIds \cup {"missing"}

(***************************************************************************)
(* Python truthiness of a string-or-None value.                            *)
(***************************************************************************)
Truthy(s) == s # NoneId /\ s # ""

(***************************************************************************)
(* session_id = session_name or str(uuid.uuid4()): the given name when it  *)
(* is truthy, otherwise the identifier uuid4 draws, which none of the      *)
(* identifiers in use equals.                                              *)
(***************************************************************************)
SessionIdChoices(session_name) ==
    IF Truthy(session_name)
    THEN {session_name}
    ELSE Uuids \ DOMAIN observations

(***************************************************************************)
(* The dict stored for a session when it is opened.                        *)
(***************************************************************************)
NewSession(t) ==
    [start_time |-> t,
     end_time |-> NoTime,
     decisions |-> <<>>,
     metrics |-> [total_tokens |-> 0, total_time |-> 0,
                  success_count |-> 0, failure_count |-> 0]]

(***************************************************************************)
(* d[k] = v on a dict: the key is added or overwritten.                    *)
(***************************************************************************)
DictSet(d, k, v) == [x \in DOMAIN d \cup {k} |-> IF x = k THEN v ELSE d[x]]

TotalDecisions ==
    LET RECURSIVE Sum(_)
        Sum(S) == IF S = {} THEN 0
                  ELSE LET k == CHOOSE x \in S : TRUE
                       IN Len(observations[k].decisions) + Sum(S \ {k})
    IN Sum(DOMAIN observations)

NoValue == <<>>

NoResult == [op |-> "none", status |-> "ok", value |-> NoValue]

\* workflow.agents: the second one has no run attribute.
WorkflowAgents ==
    << [agent_name |-> "agentA", has_run |-> TRUE],
       [agent_name |-> "tool", has_run |-> FALSE],
       [agent_name |-> "agentB", has_run |-> TRUE] >>

\* No wrapped_run is in progress; no conversion has been asked for.
WfIdle ==
    [pc |-> "idle", i |-> 0, start_time |-> 0, error |-> "", returned |-> "",
     agents |-> WorkflowAgents, calls |-> <<>>]
NoConv == [op |-> "none"]

\* Observer.__init__
InitObserver ==
    /\ observations = <<>>
    /\ current_session = NoneId
    /\ now = 0
    /\ scopes = [f \in Flows |-> <<>>]
    /\ result = NoResult

Init ==
    /\ InitObserver
    /\ wf = WfIdle
    /\ conv = NoConv

(***************************************************************************)
(* The clock advances; it never goes backwards.                            *)
(***************************************************************************)
Tick ==
    /\ now < MaxTime
    /\ now' = now + 1
    /\ UNCHANGED <<observations, current_session, scopes, result>>

(***************************************************************************)
(* Observer.session, up to the yield: flow f enters a session scope.       *)
(***************************************************************************)
\* The entry as the code does it, at any depth of nesting.
SessionEnterCode(f, session_name) ==
    \E session_id \in SessionIdChoices(session_name) :
        /\ current_session' = session_id
        /\ observations' = DictSet(observations, session_id, NewSession(now))
        /\ scopes' = [scopes EXCEPT ![f] = Append(@, session_id)]
        /\ result' = [op |-> "enter", status |-> "ok", value |-> NoValue]
        /\ UNCHANGED now

\* The same, as long as flow f has fewer than MaxDepth scopes open.
SessionEnter(f, session_name) ==
    /\ Len(scopes[f]) < MaxDepth
    /\ SessionEnterCode(f, session_name)

(***************************************************************************)
(* The finally block of Observer.session: the session that is current, if  *)
(* any, gets its end_time and the current pointer is cleared.              *)
(***************************************************************************)
\* Mutant of FinallyObservations: the end_time is a zero timestamp, not now.
FinallyObservationsZero(cur, obs, t) ==
    IF Truthy(cur)
    THEN [obs EXCEPT ![cur] = [@ EXCEPT !.end_time = 0]]
    ELSE obs

FinallyObservations(cur, obs, t) ==
    IF Truthy(cur)
    THEN [obs EXCEPT ![cur] = [@ EXCEPT !.end_time = t]]
    ELSE obs

\* Mutant of FinallyCurrent: the finally block leaves the current pointer as
\* it is.
FinallyCurrentKept(cur) == cur

FinallyCurrent(cur) == IF Truthy(cur) THEN NoneId ELSE cur

(***************************************************************************)
(* What leaves the scope after the finally block: nothing on a return, the *)
(* body's own exception otherwise (the generator does not catch it).       *)
(***************************************************************************)
\* Mutant of ExitStatus: the scope swallows the body's exception.
ExitStatusSwallowed(how) ==
    CASE how = "cancel" -> "cancelled"
      [] OTHER -> "ok"

ExitStatus(how) ==
    CASE how = "error" -> "raised"
      [] how = "cancel" -> "cancelled"
      [] OTHER -> "ok"

(***************************************************************************)
(* Observer.session, from the yield on: the body of flow f's innermost     *)
(* scope exits by `how` and the finally block runs.                        *)
(***************************************************************************)
\* Mutant of SessionExit: the exit of a nested scope makes the enclosing
\* session current again.
SessionExitRestoring(f, how) ==
    /\ Len(scopes[f]) > 0
    /\ observations' = FinallyObservations(current_session, observations, now)
    /\ current_session' = IF Len(scopes[f]) > 1
                          THEN scopes[f][Len(scopes[f]) - 1]
                          ELSE FinallyCurrent(current_session)
    /\ scopes' = [scopes EXCEPT ![f] = SubSeq(@, 1, Len(@) - 1)]
    /\ result' = [op |-> "exit", status |-> ExitStatus(how), value |-> NoValue]
    /\ UNCHANGED now

SessionExit(f, how) ==
    /\ Len(scopes[f]) > 0
    /\ observations' = FinallyObservations(current_session, observations, now)
    /\ current_session' = FinallyCurrent(current_session)
    /\ scopes' = [scopes EXCEPT ![f] = SubSeq(@, 1, Len(@) - 1)]
    /\ result' = [op |-> "exit", status |-> ExitStatus(how), value |-> NoValue]
    /\ UNCHANGED now

(***************************************************************************)
(* The decision dict built by track_decision.                              *)
(***************************************************************************)
MetadataOrEmpty(metadata) ==
    IF metadata = PyNone \/ metadata = EmptyMap THEN EmptyMap ELSE metadata

\* Mutant of Decision: the metadata argument is stored as given, a None
\* included.
DecisionRawMetadata(t, agent_id, inputs, outputs, metadata) ==
    [timestamp |-> t,
     agent_id |-> agent_id,
     inputs |-> inputs,
     outputs |-> outputs,
     metadata |-> metadata]

Decision(t, agent_id, inputs, outputs, metadata) ==
    [timestamp |-> t,
     agent_id |-> agent_id,
     inputs |-> inputs,
     outputs |-> outputs,
     metadata |-> MetadataOrEmpty(metadata)]

(***************************************************************************)
(* Observer.track_decision, called by flow f.                              *)
(***************************************************************************)
\* Mutant of TrackNoSession: with no session current, a session is opened
\* implicitly instead of raising.
TrackNoSessionImplicit(f) ==
    /\ ~Truthy(current_session)
    /\ \E session_id \in SessionNames :
          /\ observations' = DictSet(observations, session_id, NewSession(now))
          /\ current_session' = session_id
    /\ result' = [op |-> "track", status |-> "ok", value |-> NoValue]
    /\ UNCHANGED <<now, scopes>>

TrackNoSession(f) ==
    /\ ~Truthy(current_session)
    /\ result' = [op |-> "track", status |-> "RuntimeError", value |-> NoValue]
    /\ UNCHANGED <<observations, current_session, now, scopes>>

\* The store after track_decision has appended to the session cur.
Tracked(obs, cur, t, agent_id, inputs, outputs, metadata) ==
    [obs EXCEPT ![cur] =
       [@ EXCEPT !.decisions =
          Append(@, Decision(t, agent_id, inputs, outputs, metadata))]]

\* The append of track_decision as the code does it.
TrackAppendCode(f, agent_id, inputs, outputs, metadata) ==
    /\ Truthy(current_session)
    /\ observations' = Tracked(observations, current_session, now,
                               agent_id, inputs, outputs, metadata)
    /\ result' = [op |-> "track", status |-> "ok", value |-> NoValue]
    /\ UNCHANGED <<current_session, now, scopes>>

\* The same, as long as the store holds fewer than MaxDecisions records.
TrackAppend(f, agent_id, inputs, outputs, metadata) ==
    /\ TotalDecisions < MaxDecisions
    /\ TrackAppendCode(f, agent_id, inputs, outputs, metadata)

TrackDecision(f, agent_id, inputs, outputs, metadata) ==
    \/ TrackNoSession(f)
    \/ TrackAppend(f, agent_id, inputs, outputs, metadata)

(***************************************************************************)
(* dict.get(key, default)                                                  *)
(***************************************************************************)
DictGet(d, k, default) == IF k \in DOMAIN d THEN d[k] ELSE default

(***************************************************************************)
(* Python's true division of two integers, kept exact: the quotient n / d  *)
(* as a fraction in lowest terms.                                          *)
(***************************************************************************)
RECURSIVE Gcd(_, _)
Gcd(a, b) == IF b = 0 THEN a ELSE Gcd(b, a % b)

\* n / d with d = 0 raises ZeroDivisionError: ZeroDivision stands for it.
ZeroDivision == [num |-> 0, den |-> 0]

Div(n, d) ==
    LET g == Gcd(n, d) IN
    IF d = 0 THEN ZeroDivision
    ELSE IF n = 0 THEN [num |-> 0, den |-> 1]
    ELSE [num |-> n \div g, den |-> d \div g]

(***************************************************************************)
(* The loop of _calculate_averages: the totals over decisions[1..n].       *)
(***************************************************************************)
\* Mutant of Totals: a record counts as successful as soon as its metadata
\* has a success key, whatever the value.
RECURSIVE TotalsKeyPresent(_, _)
TotalsKeyPresent(decisions, n) ==
    IF n = 0
    THEN [response_time |-> 0, token_usage |-> 0, success_rate |-> 0]
    ELSE LET prev == TotalsKeyPresent(decisions, n - 1)
             metadata == decisions[n].metadata
         IN [response_time |->
                 prev.response_time + DictGet(metadata, "response_time", 0),
             token_usage |->
                 prev.token_usage + DictGet(metadata, "token_usage", 0),
             success_rate |->
                 prev.success_rate
                   + (IF "success" \in DOMAIN metadata THEN 1 ELSE 0)]

RECURSIVE Totals(_, _)
Totals(decisions, n) ==
    IF n = 0
    THEN [response_time |-> 0, token_usage |-> 0, success_rate |-> 0]
    ELSE LET prev == Totals(decisions, n - 1)
             metadata == decisions[n].metadata
         IN [response_time |->
                 prev.response_time + DictGet(metadata, "response_time", 0),
             token_usage |->
                 prev.token_usage + DictGet(metadata, "token_usage", 0),
             success_rate |->
                 prev.success_rate
                   + (IF DictGet(metadata, "success", FALSE) THEN 1 ELSE 0)]

(***************************************************************************)
(* Observer._calculate_averages                                            *)
(***************************************************************************)
\* Mutant of CalculateAverages: each mean is taken over the records that
\* carry the key.
CalculateAveragesPresentOnly(decisions) ==
    IF decisions = <<>>
    THEN [avg_response_time |-> Div(0, 1),
          avg_token_usage |-> Div(0, 1),
          success_rate |-> Div(0, 1)]
    ELSE LET totals == Totals(decisions, Len(decisions))
             count == Len(decisions)
             Having(k) == Cardinality({i \in 1..count :
                                          k \in DOMAIN decisions[i].metadata})
         IN [avg_response_time |->
                 Div(totals.response_time, Having("response_time")),
             avg_token_usage |->
                 Div(totals.token_usage, Having("token_usage")),
             success_rate |-> Div(totals.success_rate * 100, count)]

\* Mutant of CalculateAverages: no early return for an empty sequence.
CalculateAveragesNoGuard(decisions) ==
    LET totals == Totals(decisions, Len(decisions))
        count == Len(decisions)
    IN [avg_response_time |-> Div(totals.response_time, count),
        avg_token_usage |-> Div(totals.token_usage, count),
        success_rate |-> Div(totals.success_rate * 100, count)]

CalculateAverages(decisions) ==
    IF decisions = <<>>
    THEN [avg_response_time |-> Div(0, 1),
          avg_token_usage |-> Div(0, 1),
          success_rate |-> Div(0, 1)]
    ELSE LET totals == Totals(decisions, Len(decisions))
             count == Len(decisions)
         IN [avg_response_time |-> Div(totals.response_time, count),
             avg_token_usage |-> Div(totals.token_usage, count),
             success_rate |-> Div(totals.success_rate * 100, count)]

(***************************************************************************)
(* The metrics dict built by get_session_metrics for a stored session.     *)
(***************************************************************************)
\* Mutant of SessionMetrics: the agents are taken from the first record
\* only, so the result depends on the order of tracking.
SessionMetricsFirstAgent(session, t) ==
    LET decisions == session.decisions
        end_time == IF session.end_time # NoTime THEN session.end_time ELSE t
    IN [duration |-> end_time - session.start_time,
        decision_count |-> Len(decisions),
        agents |-> IF decisions = <<>> THEN {} ELSE {decisions[1].agent_id},
        averages |-> CalculateAverages(decisions)]

SessionMetrics(session, t) ==
    LET decisions == session.decisions
        end_time == IF session.end_time # NoTime THEN session.end_time ELSE t
    IN [duration |-> end_time - session.start_time,
        decision_count |-> Len(decisions),
        agents |-> {decisions[i].agent_id : i \in 1..Len(decisions)},
        averages |-> CalculateAverages(decisions)]

(***************************************************************************)
(* Observer.get_session_metrics                                            *)
(***************************************************************************)
\* Mutant of MetricsNotFound: an unknown identifier gets the metrics of an
\* empty session instead of an error.
MetricsNotFoundDefault(session_id) ==
    /\ session_id \notin DOMAIN observations
    /\ result' = [op |-> "metrics", status |-> "ok",
                  value |-> SessionMetrics(NewSession(now), now)]
    /\ UNCHANGED <<observations, current_session, now, scopes>>

MetricsNotFound(session_id) ==
    /\ session_id \notin DOMAIN observations
    /\ result' = [op |-> "metrics", status |-> "KeyError", value |-> NoValue]
    /\ UNCHANGED <<observations, current_session, now, scopes>>

\* Mutant of MetricsFound: the end time used for the duration is stored in
\* the session.
MetricsFoundStoresEnd(session_id) ==
    /\ session_id \in DOMAIN observations
    /\ result' = [op |-> "metrics", status |-> "ok",
                  value |-> SessionMetrics(observations[session_id], now)]
    /\ observations' =
         [observations EXCEPT ![session_id] =
            [@ EXCEPT !.end_time = IF @ # NoTime THEN @ ELSE now]]
    /\ UNCHANGED <<current_session, now, scopes>>

MetricsFound(session_id) ==
    /\ session_id \in DOMAIN observations
    /\ result' = [op |-> "metrics", status |-> "ok",
                  value |-> SessionMetrics(observations[session_id], now)]
    /\ UNCHANGED <<observations, current_session, now, scopes>>

GetSessionMetrics(session_id) ==
    \/ MetricsNotFound(session_id)
    \/ MetricsFound(session_id)

Next ==
    \/ Tick /\ UNCHANGED aux
    \/ \E f \in Flows, n \in NameArgs : SessionEnter(f, n) /\ UNCHANGED aux
    \/ \E f \in Flows, how \in ExitKinds : SessionExit(f, how) /\ UNCHANGED aux
    \/ \E f \in Flows, a \in TrackArgs :
          TrackDecision(f, a[1], a[2], a[3], a[4]) /\ UNCHANGED aux
    \/ \E session_id \in QueryIds :
          GetSessionMetrics(session_id) /\ UNCHANGED aux

Spec == Init /\ [][Next]_vars

(***************************************************************************)
(* Vocabulary of the properties.                                           *)
(***************************************************************************)
\* The session of flow f's innermost open scope.
Top(f) == scopes[f][Len(scopes[f])]

\* This step is the exit of flow f's innermost scope.
ExitStep(f) == Len(scopes'[f]) < Len(scopes[f])

\* This step is a call of track_decision.
TrackStep == result'.op = "track" /\ now' = now /\ scopes' = scopes

\* This step is a call of get_session_metrics.
MetricsStep == result'.op = "metrics" /\ now' = now /\ scopes' = scopes

IsPrefix(s, t) == Len(s) <= Len(t) /\ SubSeq(t, 1, Len(s)) = s

IsOpen(k) == k \in DOMAIN observations /\ observations[k].end_time = NoTime
IsClosed(k) == k \in DOMAIN observations /\ observations[k].end_time # NoTime

(***************************************************************************)
(* C1: whenever a session scope exits (by return, early return, error or   *)
(* cancellation), the end timestamp of that scope's session is set once    *)
(* the scope has exited, also for nested and overlapping scopes.           *)
(***************************************************************************)
C1_EndTimeSetOnEveryExit ==
    [][\A f \in Flows :
         ExitStep(f) => observations'[Top(f)].end_time # NoTime]_vars

(***************************************************************************)
(* C2: the exit of session S's scope sets the end timestamp of S and of no *)
(* other session, and clears the current pointer only if it refers to S:   *)
(* when another session is current, that session and the pointer are left  *)
(* unchanged.                                                              *)
(***************************************************************************)
C2_CloseTouchesOnlyOwnSession ==
    [][\A f \in Flows :
         ExitStep(f) =>
           /\ \A k \in DOMAIN observations \ {Top(f)} :
                observations'[k] = observations[k]
           /\ current_session # Top(f) =>
                current_session' = current_session]_vars

(***************************************************************************)
(* C3: track_decision called while no session is current fails with the   *)
(* no-active-session error and changes nothing: no session is created, no  *)
(* record is appended, the current pointer stays empty.                    *)
(***************************************************************************)
C3_TrackWithoutSessionFails ==
    [][TrackStep /\ ~Truthy(current_session) =>
         /\ result'.status = "RuntimeError"
         /\ observations' = observations
         /\ current_session' = NoneId]_vars

\* A track_decision call has just been rejected for want of a session, in a
\* store that already holds a session.
C3_Witness ==
    /\ result.op = "track"
    /\ result.status = "RuntimeError"
    /\ current_session = NoneId
    /\ DOMAIN observations # {}

(***************************************************************************)
(* C4: track_decision called while a session is current appends exactly    *)
(* one record, carrying the given agent_id, inputs, outputs and metadata    *)
(* (the empty mapping when metadata is omitted), at the end of the current  *)
(* session's decisions; the earlier records keep content and order, every  *)
(* other session and the current pointer are unchanged.                    *)
(***************************************************************************)
C4_TrackAppendsOneRecord ==
    [][TrackStep /\ Truthy(current_session) =>
         \A f \in Flows, a \in TrackArgs :
           TrackDecision(f, a[1], a[2], a[3], a[4]) =>
           LET before == observations[current_session].decisions
               after == observations'[current_session].decisions
           IN /\ Len(after) = Len(before) + 1
              /\ SubSeq(after, 1, Len(before)) = before
              /\ after[Len(after)].agent_id = a[1]
              /\ after[Len(after)].inputs = a[2]
              /\ after[Len(after)].outputs = a[3]
              /\ after[Len(after)].metadata =
                   (IF a[4] = PyNone THEN EmptyMap ELSE a[4])
              /\ DOMAIN observations' = DOMAIN observations
              /\ \A k \in DOMAIN observations \ {current_session} :
                   observations'[k] = observations[k]
              /\ current_session' = current_session]_vars

\* A session holds two records, the second one tracked with metadata
\* omitted or empty after a first one with metadata.
C4_Witness ==
    /\ result.op = "track"
    /\ result.status = "ok"
    /\ \E k \in DOMAIN observations :
         /\ k = current_session
         /\ Len(observations[k].decisions) = 2
         /\ observations[k].decisions[1].metadata # EmptyMap
         /\ observations[k].decisions[2].metadata = EmptyMap

(***************************************************************************)
(* C5: while a session's end timestamp is unset its decision sequence is   *)
(* append-only (the earlier sequence is a prefix of every later one),      *)
(* whatever operations follow, opening a session under a name already in   *)
(* use included.                                                           *)
(***************************************************************************)
C5_AppendOnlyWhileOpen ==
    [][\A k \in DOMAIN observations :
         IsOpen(k) =>
           IsPrefix(observations[k].decisions, observations'[k].decisions)]_vars

(***************************************************************************)
(* C6: once a session's end timestamp is set, no later operation changes   *)
(* that end timestamp or the session's recorded decisions.                 *)
(***************************************************************************)
C6_ClosedSessionIsFrozen ==
    [][\A k \in DOMAIN observations :
         IsClosed(k) =>
           /\ observations'[k].end_time = observations[k].end_time
           /\ observations'[k].decisions = observations[k].decisions]_vars

(***************************************************************************)
(* C7: closing an already closed session a second time (the exit of a      *)
(* scope whose session already has its end timestamp) leaves that end      *)
(* timestamp and the rest of the store as they were.                       *)
(***************************************************************************)
C7_SecondCloseIsNoOp ==
    [][\A f \in Flows :
         ExitStep(f) /\ IsClosed(Top(f)) =>
           /\ observations' = observations
           /\ current_session' = current_session]_vars

(***************************************************************************)
(* C8: get_session_metrics with an identifier that is not in the store     *)
(* fails with the session-not-found error, returns no metrics, and leaves  *)
(* the store and the current pointer unchanged.                            *)
(***************************************************************************)
C8_MetricsOfUnknownSessionFails ==
    [][MetricsStep =>
         \A session_id \in QueryIds \ DOMAIN observations :
           GetSessionMetrics(session_id) =>
           /\ result'.status = "KeyError"
           /\ result'.value = NoValue
           /\ observations' = observations
           /\ current_session' = current_session]_vars

\* A query for an unknown identifier has just failed while the store holds
\* a session.
C8_Witness ==
    /\ result.op = "metrics"
    /\ result.status = "KeyError"
    /\ DOMAIN observations # {}
    /\ DOMAIN observations # SessionIds

(***************************************************************************)
(* C9: every session whose end timestamp is set has                        *)
(* end timestamp >= start timestamp.                                       *)
(***************************************************************************)
C9_EndNotBeforeStart ==
    \A k \in DOMAIN observations :
        observations[k].end_time # NoTime =>
            observations[k].end_time >= observations[k].start_time

\* A session has been closed after the clock advanced past its start.
C9_Witness ==
    \E k \in DOMAIN observations :
        /\ observations[k].end_time # NoTime
        /\ observations[k].end_time > observations[k].start_time

(***************************************************************************)
(* C10: a decision tracked by a flow inside its own session scope is       *)
(* recorded in that flow's session and in no other, and is not rejected,   *)
(* also when two flows have scopes open at the same time.                  *)
(***************************************************************************)
C10_TrackLandsInOwnSession ==
    [][TrackStep =>
         \A f \in Flows, a \in TrackArgs :
           TrackDecision(f, a[1], a[2], a[3], a[4]) /\ scopes[f] # <<>> =>
           /\ result'.status = "ok"
           /\ Len(observations'[Top(f)].decisions)
                = Len(observations[Top(f)].decisions) + 1
           /\ \A k \in DOMAIN observations \ {Top(f)} :
                observations'[k].decisions = observations[k].decisions]_vars

\* This step is the entry of flow f into a new session scope.
EnterStep(f) == Len(scopes'[f]) > Len(scopes[f])

(***************************************************************************)
(* C11: opening a session makes the newly opened session the current one,  *)
(* whatever was current before (the pointer names one session at most),    *)
(* and the session that was current before stays in the store with its     *)
(* decisions and with its end timestamp still unset.                       *)
(***************************************************************************)
C11_OpenOnlyReplacesPointer ==
    [][\A f \in Flows :
         EnterStep(f) =>
           /\ current_session' = scopes'[f][Len(scopes'[f])]
           /\ Truthy(current_session) =>
                /\ current_session \in DOMAIN observations'
                /\ observations'[current_session].decisions
                     = observations[current_session].decisions
                /\ observations'[current_session].end_time = NoTime]_vars

(***************************************************************************)
(* The aggregation of one session: a single caller opens the session,      *)
(* tracks up to MaxRecords decisions whose metadata carry, or lack, the    *)
(* keys read by _calculate_averages, closes the session, and queries the   *)
(* metrics at any point.                                                   *)
(***************************************************************************)
MaxRecords == 3

\* track_decision arguments: metadata absent, with response_time and
\* success, with a failed success flag, with token_usage only.
MetricArgs ==
    { <<"agentA", [task |-> "t1"], [result |-> "r1"], PyNone>>,
      <<"agentB", [task |-> "t1"], [result |-> "r2"],
        [success |-> TRUE, response_time |-> 1]>>,
      <<"agentA", [task |-> "t1"], [result |-> "r3"],
        [success |-> FALSE, response_time |-> 3]>>,
      <<"agentB", [task |-> "t1"], [result |-> "r4"],
        [success |-> TRUE, token_usage |-> 10]>> }

NextMetrics ==
    \/ \E n \in SessionNames : SessionEnter(1, n) /\ UNCHANGED aux
    \/ SessionExit(1, "return") /\ UNCHANGED aux
    \/ \E a \in MetricArgs :
          /\ TotalDecisions < MaxRecords
          /\ TrackAppendCode(1, a[1], a[2], a[3], a[4])
          /\ UNCHANGED aux
    \/ \E session_id \in QueryIds :
          GetSessionMetrics(session_id) /\ UNCHANGED aux

SpecMetrics == Init /\ [][NextMetrics]_vars

\* The agent identifiers of track_decision's callers.
AgentIds == {a[1] : a \in TrackArgs \cup MetricArgs}

\* The rearrangements of the sequence d.
Rearrangements(d) ==
    LET n == Len(d)
        Bijections == {p \in [1..n -> 1..n] : \A i, j \in 1..n : p[i] = p[j] => i = j}
    IN {[i \in 1..n |-> d[p[i]]] : p \in Bijections}

\* The number of indices of d whose record satisfies Test.
CountWhere(d, Test(_)) == Cardinality({i \in 1..Len(d) : Test(d[i])})

(***************************************************************************)
(* C12: for every known session, get_session_metrics returns               *)
(* decision_count equal to the number of records of the session and agents *)
(* equal to the set of distinct agent_id values of those records, and      *)
(* both are the same for every order in which the records could have been  *)
(* tracked.                                                                *)
(***************************************************************************)
C12_CountAndAgents ==
    [][MetricsStep =>
         \A session_id \in DOMAIN observations :
           GetSessionMetrics(session_id) =>
             LET session == observations[session_id]
                 d == session.decisions
                 m == result'.value
             IN /\ result'.status = "ok"
                /\ m.decision_count = CountWhere(d, LAMBDA r : TRUE)
                /\ \A a \in AgentIds :
                     a \in m.agents <=> \E i \in 1..Len(d) : d[i].agent_id = a
                /\ m.agents \subseteq AgentIds
                /\ \A e \in Rearrangements(d) :
                     LET me == SessionMetrics([session EXCEPT !.decisions = e], now)
                     IN /\ me.decision_count = m.decision_count
                        /\ me.agents = m.agents]_vars

\* A session holding records of two agents, one of them twice, was queried.
C12_Witness ==
    /\ result.op = "metrics"
    /\ result.status = "ok"
    /\ result.value.decision_count = 3
    /\ result.value.agents = {"agentA", "agentB"}

\* The record r carries metadata.success = True.
Succeeded(r) == "success" \in DOMAIN r.metadata /\ r.metadata.success = TRUE

(***************************************************************************)
(* C13: for every non-empty decision sequence, success_rate is             *)
(* 100 * (number of records whose metadata.success is true) / (number of   *)
(* records), a record without a success key counting as not successful,    *)
(* and the value lies in [0, 100].                                         *)
(***************************************************************************)
C13_SuccessRate ==
    [][MetricsStep =>
         \A session_id \in DOMAIN observations :
           GetSessionMetrics(session_id)
             /\ observations[session_id].decisions # <<>> =>
             LET d == observations[session_id].decisions
                 rate == result'.value.averages.success_rate
             IN /\ rate.den > 0
                /\ rate.num * Len(d) = 100 * CountWhere(d, Succeeded) * rate.den
                /\ 0 <= rate.num
                /\ rate.num <= 100 * rate.den]_vars

\* One success among three records, one of the others without the key:
\* the rate is 100/3.
C13_Witness ==
    /\ result.op = "metrics"
    /\ result.status = "ok"
    /\ result.value.averages.success_rate = [num |-> 100, den |-> 3]
    /\ \E k \in DOMAIN observations :
         \E i \in 1..Len(observations[k].decisions) :
            "success" \notin DOMAIN observations[k].decisions[i].metadata

\* The number 0 as a quotient.
Zero == [num |-> 0, den |-> 1]

(***************************************************************************)
(* C14: get_session_metrics on a session with zero decisions returns       *)
(* decision_count = 0, agents = {} and exactly the averages structure      *)
(* avg_response_time = 0, avg_token_usage = 0, success_rate = 0, with no   *)
(* division by zero, whether the session is open or closed.                *)
(***************************************************************************)
C14_EmptySessionMetrics ==
    [][MetricsStep =>
         \A session_id \in DOMAIN observations :
           GetSessionMetrics(session_id)
             /\ observations[session_id].decisions = <<>> =>
             /\ result'.status = "ok"
             /\ result'.value.decision_count = 0
             /\ result'.value.agents = {}
             /\ result'.value.averages =
                  [avg_response_time |-> Zero,
                   avg_token_usage |-> Zero,
                   success_rate |-> Zero]]_vars

\* A closed session without decisions has been queried.
C14_Witness ==
    /\ result.op = "metrics"
    /\ result.status = "ok"
    /\ result.value.decision_count = 0
    /\ \E k \in DOMAIN observations :
         IsClosed(k) /\ observations[k].decisions = <<>>

\* The sum of metadata[key] over the records of d that have the key.
RECURSIVE SumOfKey(_, _)
SumOfKey(d, key) ==
    IF d = <<>> THEN 0
    ELSE (IF key \in DOMAIN Head(d).metadata THEN Head(d).metadata[key] ELSE 0)
           + SumOfKey(Tail(d), key)

\* The quotient q equals total / count.
IsMean(q, total, count) == q.den > 0 /\ q.num * count = total * q.den

(***************************************************************************)
(* C15: for every non-empty decision sequence, avg_response_time and       *)
(* avg_token_usage are the sum of the records' metadata.response_time      *)
(* (resp. metadata.token_usage) divided by the number of records; a record *)
(* without the key adds 0 to the sum and still counts in the divisor.      *)
(***************************************************************************)
C15_Averages ==
    [][MetricsStep =>
         \A session_id \in DOMAIN observations :
           GetSessionMetrics(session_id)
             /\ observations[session_id].decisions # <<>> =>
             LET d == observations[session_id].decisions
                 averages == result'.value.averages
             IN /\ IsMean(averages.avg_response_time,
                          SumOfKey(d, "response_time"), Len(d))
                /\ IsMean(averages.avg_token_usage,
                          SumOfKey(d, "token_usage"), Len(d))]_vars

\* Response times 1 and 3 and a record without response_time: the mean is
\* 4/3; token usage 10 on one record of three: the mean is 10/3.
C15_Witness ==
    /\ result.op = "metrics"
    /\ result.status = "ok"
    /\ result.value.decision_count = 3
    /\ result.value.averages.avg_response_time = [num |-> 4, den |-> 3]
    /\ result.value.averages.avg_token_usage = [num |-> 10, den |-> 3]

(***************************************************************************)
(* C16: get_session_metrics is a pure query: for any identifier and in any *)
(* state it changes no session's timestamps or decisions and not the       *)
(* current pointer, and it succeeds for a stored session both while the    *)
(* session is open and after it has closed.                                *)
(***************************************************************************)
C16_MetricsIsPureQuery ==
    [][MetricsStep =>
         \A session_id \in QueryIds :
           GetSessionMetrics(session_id) =>
             /\ observations' = observations
             /\ current_session' = current_session
             /\ session_id \in DOMAIN observations => result'.status = "ok"]_vars

\* A query has succeeded while every stored session is closed and none is
\* current, one of them holding a decision.
C16_Witness ==
    /\ result.op = "metrics"
    /\ result.status = "ok"
    /\ result.value.decision_count > 0
    /\ current_session = NoneId
    /\ \A k \in DOMAIN observations : IsClosed(k)

\* The duration a query made now reports for the stored session k.
DurationNow(k) == SessionMetrics(observations[k], now).duration

(***************************************************************************)
(* C17: the duration reported by get_session_metrics is end - start when   *)
(* the session's end timestamp is set and (time of the query) - start when *)
(* it is unset; it is never negative; and for a session that stays open    *)
(* the duration a query reports does not decrease from one step to the     *)
(* next, hence not between successive queries.                             *)
(***************************************************************************)
C17_Duration ==
    [][/\ MetricsStep =>
            \A session_id \in DOMAIN observations :
              GetSessionMetrics(session_id) =>
                LET session == observations[session_id]
                    duration == result'.value.duration
                IN /\ session.end_time # NoTime =>
                        duration = session.end_time - session.start_time
                   /\ session.end_time = NoTime =>
                        duration = now - session.start_time
                   /\ duration >= 0
       /\ \A k \in SessionIds :
            IsOpen(k) /\ IsOpen(k)' => DurationNow(k)' >= DurationNow(k)]_vars

(***************************************************************************)
(* C19: an error raised by the caller's own work inside a session scope is *)
(* not swallowed: once the scope's close step has run the error propagates *)
(* to the caller, and every record tracked before the error is still in    *)
(* its session.                                                            *)
(***************************************************************************)
C19_ErrorPropagates ==
    [][\A f \in Flows :
         ExitStep(f) /\ SessionExit(f, "error") =>
           /\ result'.op = "exit"
           /\ result'.status = "raised"
           /\ \A k \in DOMAIN observations :
                /\ k \in DOMAIN observations'
                /\ observations'[k].decisions = observations[k].decisions]_vars

\* A scope has been left by an error; its session is closed and keeps a
\* record tracked before the error.
C19_Witness ==
    /\ result.op = "exit"
    /\ result.status = "raised"
    /\ \E k \in DOMAIN observations :
         IsClosed(k) /\ Len(observations[k].decisions) > 0

(***************************************************************************)
(* SwarmObserver.observe_workflow: one run of wrapped_run (flow 1) on an   *)
(* observer that another coroutine (flow 2) uses as well.  wrapped_run     *)
(* gives up control at its two awaits only; what it does between two       *)
(* awaits is one step.  wf.pc is the await the run is suspended at, wf.i   *)
(* the agent awaited, wf.start_time the local start_time, wf.error the     *)
(* exception that left wrapped_run, wf.returned its return value,          *)
(* wf.agents the list workflow.agents and wf.calls the run operations      *)
(* called so far: the index of the agent, 0 for the workflow's own run.    *)
(***************************************************************************)
WorkflowTask == [task |-> "t1"]

\* str(e) of the exceptions: an agent's, the workflow's own run's, and the
\* RuntimeError of track_decision.
AgentError == "agent failed"
RunError == "run failed"
NoSessionError == "No active session"

\* Where the for loop stops next after agent i: at the await of the next
\* agent that has a run attribute, or at the await of original_run.
\* Mutant of LoopFrom: the loop awaits every agent, with or without a run
\* attribute.
LoopFromEvery(i) ==
    IF i + 1 > Len(wf.agents)
    THEN [pc |-> "await_run", i |-> 0]
    ELSE [pc |-> "await_agent", i |-> i + 1]

LoopFrom(i) ==
    LET later == {j \in (i + 1)..Len(wf.agents) : wf.agents[j].has_run}
    IN IF later = {}
       THEN [pc |-> "await_run", i |-> 0]
       ELSE [pc |-> "await_agent",
             i |-> CHOOSE j \in later : \A k \in later : j <= k]

Suspended(i, t) ==
    [pc |-> LoopFrom(i).pc, i |-> LoopFrom(i).i, start_time |-> t,
     error |-> "", returned |-> "",
     agents |-> wf.agents, calls |-> Append(wf.calls, LoopFrom(i).i)]

Finished(error, returned) ==
    [pc |-> "done", i |-> 0, start_time |-> 0,
     error |-> error, returned |-> returned,
     agents |-> wf.agents, calls |-> wf.calls]

\* track_decision called in an except block while the exception err is
\* handled: the store afterwards, and the exception that leaves the block
\* through `raise`.
HandlerStore(obs, cur, t, agent_id, outputs, metadata) ==
    IF Truthy(cur)
    THEN Tracked(obs, cur, t, agent_id, WorkflowTask, outputs, metadata)
    ELSE obs

HandlerError(cur, err) == IF Truthy(cur) THEN err ELSE NoSessionError

\* The with statement is left by the exception err after the store became
\* obs: the finally block of Observer.session runs.
WfLeave(obs, err, returned) ==
    /\ observations' = FinallyObservations(current_session, obs, now)
    /\ current_session' = FinallyCurrent(current_session)
    /\ scopes' = [scopes EXCEPT ![1] = SubSeq(@, 1, Len(@) - 1)]
    /\ result' = [op |-> "exit",
                  status |-> IF err = "" THEN "ok" ELSE "raised",
                  value |-> NoValue]
    /\ wf' = Finished(err, returned)
    /\ UNCHANGED <<now, conv>>

\* Lines 58-66: the outer except block for the exception err, then the exit.
WfOuterExcept(obs, err) ==
    WfLeave(HandlerStore(obs, current_session, now, "workflow",
                         [error |-> err], [success |-> FALSE]),
            HandlerError(current_session, err), "")

\* Lines 41-52: the inner except block for the exception err of agent i,
\* whose `raise` is caught by the outer one.
\* Mutant of WfInnerExcept: the inner except block ends the run itself,
\* the outer one does not see the exception.
WfInnerExceptOnly(i, err) ==
    WfLeave(
        HandlerStore(observations, current_session, now,
                     wf.agents[i].agent_name, [error |-> err],
                     [response_time |-> now - wf.start_time,
                      success |-> FALSE]),
        HandlerError(current_session, err), "")

WfInnerExcept(i, err) ==
    WfOuterExcept(
        HandlerStore(observations, current_session, now,
                     wf.agents[i].agent_name, [error |-> err],
                     [response_time |-> now - wf.start_time,
                      success |-> FALSE]),
        HandlerError(current_session, err))

\* wrapped_run is called: lines 18-25, up to the first await.
WfStart ==
    /\ wf.pc = "idle"
    /\ \E n \in SessionNames : SessionEnter(1, n)
    /\ wf' = Suspended(0, now)
    /\ UNCHANGED conv

\* The awaited agent returns: lines 28-39, then the loop goes on.  A
\* track_decision that raises is handled like an error of the agent.
WfAgentReturns ==
    /\ wf.pc = "await_agent"
    /\ IF Truthy(current_session)
       THEN /\ TrackAppendCode(1, wf.agents[wf.i].agent_name,
                               WorkflowTask, [result |-> "r1"],
                               [response_time |-> now - wf.start_time,
                                success |-> TRUE])
            /\ wf' = Suspended(wf.i, now)
            /\ UNCHANGED conv
       ELSE WfInnerExcept(wf.i, NoSessionError)

\* The awaited agent raises.
WfAgentRaises ==
    /\ wf.pc = "await_agent"
    /\ WfInnerExcept(wf.i, AgentError)

\* The awaited original_run returns: line 56.
WfRunReturns ==
    /\ wf.pc = "await_run"
    /\ WfLeave(observations, "", "result")

\* The awaited original_run raises: lines 58-66.
WfRunRaises ==
    /\ wf.pc = "await_run"
    /\ WfOuterExcept(observations, RunError)

NextWorkflow ==
    \/ WfStart
    \/ WfAgentReturns
    \/ WfAgentRaises
    \/ WfRunReturns
    \/ WfRunRaises
    \/ Tick /\ UNCHANGED aux
    \/ \E n \in NameArgs : SessionEnter(2, n) /\ UNCHANGED aux
    \/ \E how \in ExitKinds : SessionExit(2, how) /\ UNCHANGED aux
    \/ \E a \in TrackArgs :
          TrackDecision(2, a[1], a[2], a[3], a[4]) /\ UNCHANGED aux

SpecWorkflow == Init /\ [][NextWorkflow]_vars

\* The record r is the failed Decision Record of the agent named name.
IsFailureOf(r, name) ==
    /\ r.agent_id = name
    /\ r.outputs = [error |-> AgentError]
    /\ "success" \in DOMAIN r.metadata
    /\ r.metadata.success = FALSE

(***************************************************************************)
(* C18: in an observed workflow run, when an agent's run raises, the       *)
(* failure is recorded in the run's session as a failed Decision Record    *)
(* (outputs carrying the error text, metadata.success = false), the        *)
(* session stays in the store and is closed with an end timestamp, and the *)
(* agent's error is re-raised to the caller of the workflow.               *)
(***************************************************************************)
C18_AgentFailureRecorded ==
    [][wf.pc = "await_agent" /\ WfAgentRaises =>
         LET run_session == Top(1)
             name == wf.agents[wf.i].agent_name
         IN /\ run_session \in DOMAIN observations'
            /\ \E j \in 1..Len(observations'[run_session].decisions) :
                 IsFailureOf(observations'[run_session].decisions[j], name)
            /\ observations'[run_session].end_time # NoTime
            /\ wf'.pc = "done"
            /\ wf'.error = AgentError]_vars

(***************************************************************************)
(* SwarmAdapter: the conversion of one step of a swarm execution path.     *)
(* A numeric confidence is kept in hundredths, [num |-> 40] for 0.4; a     *)
(* confidence that is no number is None or a label.                        *)
(***************************************************************************)
MaxConfidence == 100

\* The thresholds of _convert_swarm_confidence and the default of
\* step.get("confidence", 0.5), in hundredths.
LowBelow == 40
MediumBelow == 70
DefaultConfidence == 50

ConfidenceValues ==
    {[num |-> n] : n \in (0 - MaxConfidence)..MaxConfidence}
        \cup {PyNone, [label |-> "HIGH"]}

IsNumber(c) == "num" \in DOMAIN c

\* The steps of swarm_output.execution_path.
SwarmSteps ==
    {[action |-> "a1"]}
        \cup {[action |-> "a1", confidence |-> c] : c \in ConfidenceValues}
        \cup {[confidence |-> [num |-> DefaultConfidence],
               considered_actions |-> <<[name |-> "a2", feasibility_score |-> 7],
                                        [pros |-> <<"fast">>]>>]}

\* `<` between a value that is no number and a float raises TypeError.
TypeError == "TypeError"

(***************************************************************************)
(* SwarmAdapter._convert_swarm_confidence                                  *)
(***************************************************************************)
\* Mutant of ConvertSwarmConfidence: the thresholds are inclusive.
ConvertSwarmConfidenceInclusive(confidence) ==
    IF ~IsNumber(confidence) THEN TypeError
    ELSE IF confidence.num <= LowBelow THEN "LOW"
    ELSE IF confidence.num <= MediumBelow THEN "MEDIUM"
    ELSE "HIGH"

ConvertSwarmConfidence(confidence) ==
    IF ~IsNumber(confidence) THEN TypeError
    ELSE IF confidence.num < LowBelow THEN "LOW"
    ELSE IF confidence.num < MediumBelow THEN "MEDIUM"
    ELSE "HIGH"

(***************************************************************************)
(* SwarmAdapter._extract_swarm_alternatives                                *)
(***************************************************************************)
ExtractSwarmAlternatives(step) ==
    IF "considered_actions" \in DOMAIN step
    THEN [i \in 1..Len(step.considered_actions) |->
            LET action == step.considered_actions[i]
            IN [approach |-> DictGet(action, "name", "Unknown"),
                advantages |-> DictGet(action, "pros", <<>>),
                disadvantages |-> DictGet(action, "cons", <<>>),
                feasibility |-> DictGet(action, "feasibility_score", 5)]]
    ELSE <<>>

(***************************************************************************)
(* The ThoughtStep built by convert_to_decision_path for one step, or the  *)
(* exception raised while its arguments are evaluated.                     *)
(***************************************************************************)
ThoughtStep(step) ==
    LET confidence ==
            ConvertSwarmConfidence(
                DictGet(step, "confidence", [num |-> DefaultConfidence]))
    IN IF confidence = TypeError
       THEN [status |-> TypeError]
       ELSE [status |-> "ok",
             thought |-> DictGet(step, "action", "Unknown action"),
             reasoning |-> DictGet(step, "reasoning", "No reasoning provided"),
             confidence |-> confidence,
             supporting_evidence |-> [swarm_data |-> DictGet(step, "data", EmptyMap)],
             alternatives_considered |-> ExtractSwarmAlternatives(step)]

ConvertStep(step) ==
    /\ conv' = [op |-> "step", step |-> step, out |-> ThoughtStep(step)]
    /\ UNCHANGED <<observations, current_session, now, scopes, result, wf>>

NextConfidence == \E step \in SwarmSteps : ConvertStep(step)

SpecConfidence == Init /\ [][NextConfidence]_vars

\* The level the documented thresholds give to n hundredths.
DocumentedLevel(n) ==
    CASE n < 40 -> "LOW"
      [] n >= 40 /\ n < 70 -> "MEDIUM"
      [] n >= 70 -> "HIGH"

\* The step has a confidence that is a number.
HasNumericConfidence(step) ==
    "confidence" \in DOMAIN step /\ IsNumber(step.confidence)

MaxText == 3

Digits == {"0", "1", "8"}
DigitValue == [c \in Digits |-> CASE c = "0" -> 0 [] c = "1" -> 1 [] c = "8" -> 8]

FeasibilityAtoms == Digits \cup {"/", " ", "-", "h"}

\* The texts after "Feasibility:": all short ones, and the documented ones.
SampleTexts ==
    { <<"8", "/", "1", "0">>,
      <<"8", " ", "out of", " ", "1", "0">>,
      <<" ", "8", " ", "/", " ", "1", "0">>,
      <<"h", "i", "g", "h">>,
      <<"8", ".", "1", "/", "1", "0">>,
      <<"out of", " ", "1", "0">>,
      <<"1", "0", "/", "1", "0">> }

FeasibilityTexts ==
    UNION {[1..n -> FeasibilityAtoms] : n \in 0..MaxText} \cup SampleTexts

\* str.strip()
RECURSIVE LStrip(_)
LStrip(s) == IF s # <<>> /\ Head(s) = " " THEN LStrip(Tail(s)) ELSE s

RECURSIVE RStrip(_)
RStrip(s) ==
    IF s # <<>> /\ s[Len(s)] = " " THEN RStrip(SubSeq(s, 1, Len(s) - 1)) ELSE s

Strip(s) == RStrip(LStrip(s))

\* sep in s
Contains(s, sep) == \E i \in 1..Len(s) : s[i] = sep

\* s.split(sep)[0]
SplitFirst(s, sep) ==
    IF Contains(s, sep)
    THEN SubSeq(s, 1, (CHOOSE i \in 1..Len(s) :
                          s[i] = sep /\ \A j \in 1..(i - 1) : s[j] # sep) - 1)
    ELSE s

\* The value of a sequence of digits, read from the left.
RECURSIVE DigitsValue(_, _)
DigitsValue(s, acc) ==
    IF s = <<>> THEN acc
    ELSE DigitsValue(Tail(s), 10 * acc + DigitValue[Head(s)])

AllDigits(s) == s # <<>> /\ \A i \in 1..Len(s) : s[i] \in Digits

\* int(s): surrounding blanks and one leading sign are accepted; anything
\* that is not then a non-empty run of digits raises ValueError.
ValueError == [ok |-> FALSE, value |-> 0]

IntOf(s) ==
    LET t == Strip(s)
        signed == t # <<>> /\ Head(t) = "-"
        body == IF signed THEN Tail(t) ELSE t
    IN IF AllDigits(body)
       THEN [ok |-> TRUE,
             value |-> IF signed THEN 0 - DigitsValue(body, 0)
                       ELSE DigitsValue(body, 0)]
       ELSE ValueError

\* The value stored when the text does not parse.
DefaultFeasibility == 5

(***************************************************************************)
(* EnhancedAgent._parse_alternatives, the Feasibility branch: the value    *)
(* stored for the text after the colon.                                    *)
(***************************************************************************)
\* Mutant of ParseFeasibility: no except clause, a text that does not parse
\* stores nothing and the error leaves the parser.
ParseFeasibilityUncaught(line_rest) ==
    LET feasibility_text == Strip(line_rest)
        parsed ==
            IF Contains(feasibility_text, "/")
            THEN IntOf(Strip(SplitFirst(feasibility_text, "/")))
            ELSE IF Contains(feasibility_text, "out of")
            THEN IntOf(Strip(SplitFirst(feasibility_text, "out of")))
            ELSE IntOf(feasibility_text)
    IN IF parsed.ok THEN [status |-> "ok", feasibility |-> parsed.value]
       ELSE [status |-> "ValueError", feasibility |-> 0]

ParseFeasibility(line_rest) ==
    LET feasibility_text == Strip(line_rest)
        parsed ==
            IF Contains(feasibility_text, "/")
            THEN IntOf(Strip(SplitFirst(feasibility_text, "/")))
            ELSE IF Contains(feasibility_text, "out of")
            THEN IntOf(Strip(SplitFirst(feasibility_text, "out of")))
            ELSE IntOf(feasibility_text)
    IN IF parsed.ok THEN [status |-> "ok", feasibility |-> parsed.value]
       ELSE [status |-> "ok", feasibility |-> DefaultFeasibility]

\* A Feasibility line is about to be read.
InitFeasibility ==
    /\ InitObserver
    /\ wf = WfIdle
    /\ conv \in {[op |-> "line", text |-> t] : t \in FeasibilityTexts}

FeasibilityLine ==
    /\ conv.op = "line"
    /\ conv' = [op |-> "feasibility", text |-> conv.text,
                out |-> ParseFeasibility(conv.text)]
    /\ UNCHANGED <<observations, current_session, now, scopes, result, wf>>

NextFeasibility == FeasibilityLine

SpecFeasibility == InitFeasibility /\ [][NextFeasibility]_vars

\* The text is an integer numeral.
IsNumeral(s) == AllDigits(s) \/ (s # <<>> /\ Head(s) = "-" /\ AllDigits(Tail(s)))

NumeralValue(s) ==
    IF Head(s) = "-" THEN 0 - DigitsValue(Tail(s), 0) ELSE DigitsValue(s, 0)

\* The text is the numeral n followed by the atoms of suffix.
IsNumeralThen(s, suffix) ==
    /\ Len(s) > Len(suffix)
    /\ SubSeq(s, Len(s) - Len(suffix) + 1, Len(s)) = suffix
    /\ IsNumeral(SubSeq(s, 1, Len(s) - Len(suffix)))

NumeralBefore(s, suffix) == NumeralValue(SubSeq(s, 1, Len(s) - Len(suffix)))

OverTen == <<"/", "1", "0">>
OutOfTen == <<" ", "out of", " ", "1", "0">>

(***************************************************************************)
(* C21: feasibility parsing never fails the parse: for every Feasibility   *)
(* line, text of the form "N/10" yields N, text of the form "N out of 10"  *)
(* yields N, a plain integer N yields N, and any other text yields the     *)
(* default 5.                                                              *)
(***************************************************************************)
C21_FeasibilityParsing ==
    conv.op = "feasibility" =>
        LET t == Strip(conv.text)
        IN /\ conv.out.status = "ok"
           /\ conv.out.feasibility =
                IF IsNumeralThen(t, OverTen) THEN NumeralBefore(t, OverTen)
                ELSE IF IsNumeralThen(t, OutOfTen) THEN NumeralBefore(t, OutOfTen)
                ELSE IF IsNumeral(t) THEN NumeralValue(t)
                ELSE 5

\* The text has an integer before its first "/" or, without a "/", before
\* its first "out of".
HasLeadingInteger(t) ==
    \/ Contains(t, "/") /\ IsNumeral(Strip(SplitFirst(t, "/")))
    \/ ~Contains(t, "/") /\ Contains(t, "out of")
         /\ IsNumeral(Strip(SplitFirst(t, "out of")))

LeadingInteger(t) ==
    NumeralValue(Strip(SplitFirst(t, IF Contains(t, "/") THEN "/" ELSE "out of")))

(***************************************************************************)
(* C21 as amended: feasibility parsing never fails the parse: text of the  *)
(* form "N/10" yields N, text of the form "N out of 10" yields N, a plain  *)
(* integer N yields N; any other text yields the default 5 unless an       *)
(* integer stands before its first "/" (or, without "/", before its first  *)
(* "out of"), and then that integer is the value, whatever follows.        *)
(***************************************************************************)
C21_FeasibilityParsingAmended ==
    conv.op = "feasibility" =>
        LET t == Strip(conv.text)
        IN /\ conv.out.status = "ok"
           /\ IsNumeralThen(t, OverTen) =>
                conv.out.feasibility = NumeralBefore(t, OverTen)
           /\ IsNumeralThen(t, OutOfTen) =>
                conv.out.feasibility = NumeralBefore(t, OutOfTen)
           /\ IsNumeral(t) => conv.out.feasibility = NumeralValue(t)
           /\ ~IsNumeral(t) /\ ~HasLeadingInteger(t) => conv.out.feasibility = 5
           /\ HasLeadingInteger(t) => conv.out.feasibility = LeadingInteger(t)

\* "8 out of 10" has been parsed to 8.
C21_Witness ==
    /\ conv.op = "feasibility"
    /\ conv.text = <<"8", " ", "out of", " ", "1", "0">>
    /\ conv.out.status = "ok"
    /\ conv.out.feasibility = 8

(***************************************************************************)
(* Lines of a language-model response.  A line is the marker or field name *)
(* it starts with (head; "" when it starts with none of them) and the text *)
(* after it (rest), which for a field is line.split(':', 1)[1].            *)
(***************************************************************************)
Line(head, rest) == [head |-> head, rest |-> rest]

\* 10 to the power n.
RECURSIVE Pow10(_)
Pow10(n) == IF n = 0 THEN 1 ELSE 10 * Pow10(n - 1)

\* float(s) for decimal notation: blanks around, one leading sign, digits
\* with at most one point and at least one digit; anything else raises
\* ValueError.  The value is the exact quotient num / den.
FloatOf(s) ==
    LET t == Strip(s)
        signed == t # <<>> /\ Head(t) = "-"
        body == IF signed THEN Tail(t) ELSE t
        whole == SplitFirst(body, ".")
        fraction == IF Contains(body, ".")
                    THEN SubSeq(body, Len(whole) + 2, Len(body))
                    ELSE <<>>
        digits == whole \o fraction
        magnitude == DigitsValue(digits, 0)
    IN IF AllDigits(digits)
       THEN [ok |-> TRUE,
             value |-> [num |-> IF signed THEN 0 - magnitude ELSE magnitude,
                        den |-> Pow10(Len(fraction))]]
       ELSE [ok |-> FALSE, value |-> [num |-> 0, den |-> 1]]

\* The confidence stored for the text of a Confidence line.
ConfidenceOfLine(rest) ==
    LET parsed == FloatOf(Strip(rest))
    IN IF parsed.ok THEN parsed.value ELSE [num |-> 0, den |-> 1]

(***************************************************************************)
(* EnhancedAgent._parse_final_decision: the loop over lines[1..n].         *)
(***************************************************************************)
RECURSIVE ParseFinalDecision(_, _)
ParseFinalDecision(lines, n) ==
    IF n = 0
    THEN [decision |-> <<>>, confidence |-> [num |-> 0, den |-> 1],
          reasoning |-> <<>>]
    ELSE LET decision_data == ParseFinalDecision(lines, n - 1)
             line == lines[n]
         IN IF line.head = "Decision:"
            THEN [decision_data EXCEPT !.decision = Strip(line.rest)]
            ELSE IF line.head = "Confidence:"
            THEN [decision_data EXCEPT !.confidence = ConfidenceOfLine(line.rest)]
            ELSE IF line.head = "Reasoning:"
            THEN [decision_data EXCEPT !.reasoning = Strip(line.rest)]
            ELSE decision_data

(***************************************************************************)
(* DecisionPath as the adapters use it: the fields and their defaults.     *)
(***************************************************************************)
NewDecisionPath ==
    [steps |-> <<>>,
     final_decision |-> PyNone,
     confidence_score |-> [num |-> 0, den |-> 1],
     reasoning_chain |-> PyNone]

\* A conversion that returned the path, and one that raised.
Returned(path) == [status |-> "ok", path |-> path]
Raised(error) == [status |-> error, path |-> NewDecisionPath]

(***************************************************************************)
(* SwarmAdapter.convert_to_decision_path.  swarm_output is a record whose  *)
(* fields are the attributes the object has.                               *)
(***************************************************************************)
\* Mutant of SwarmStepsFrom: each converted step is put in front.
RECURSIVE SwarmStepsInFront(_, _)
SwarmStepsInFront(execution_path, n) ==
    IF n = 0 THEN <<>>
    ELSE <<ThoughtStep(execution_path[n])>>
           \o SwarmStepsInFront(execution_path, n - 1)

RECURSIVE SwarmStepsFrom(_, _)
SwarmStepsFrom(execution_path, n) ==
    IF n = 0 THEN <<>>
    ELSE Append(SwarmStepsFrom(execution_path, n - 1),
                ThoughtStep(execution_path[n]))

ConvertSwarm(swarm_output) ==
    LET execution_path == DictGet(swarm_output, "execution_path", <<>>)
        steps == SwarmStepsFrom(execution_path, Len(execution_path))
        with_steps == [NewDecisionPath EXCEPT !.steps = steps]
    IN IF \E i \in 1..Len(steps) : steps[i].status = TypeError
       THEN Raised(TypeError)
       ELSE IF "result" \in DOMAIN swarm_output
       THEN Returned([with_steps EXCEPT
                !.final_decision = swarm_output.result,
                !.confidence_score =
                    DictGet(swarm_output, "confidence",
                            [num |-> DefaultConfidence, den |-> 100]),
                !.reasoning_chain =
                    [swarm_reasoning |-> DictGet(swarm_output, "reasoning", EmptyMap),
                     swarm_metrics |-> DictGet(swarm_output, "metrics", EmptyMap)]])
       ELSE Returned(with_steps)

(***************************************************************************)
(* GenericAgentAdapter._determine_confidence: the label of a step, upper   *)
(* case, when it is one of the three levels.                               *)
(***************************************************************************)
Levels == {"LOW", "MEDIUM", "HIGH"}

\* str.upper() on the labels the steps carry.
Upper(label) ==
    CASE label \in {"low", "Low", "LOW"} -> "LOW"
      [] label \in {"medium", "MEDIUM"} -> "MEDIUM"
      [] label \in {"high", "High", "HIGH"} -> "HIGH"
      [] label = "sure" -> "SURE"
      [] OTHER -> label

AttributeError == "AttributeError"

\* A confidence that is a number has no upper().
GenericDetermineConfidence(step) ==
    LET confidence == DictGet(step, "confidence", [label |-> ""])
    IN IF "label" \notin DOMAIN confidence THEN AttributeError
       ELSE IF Upper(confidence.label) \in Levels THEN Upper(confidence.label)
       ELSE "MEDIUM"

GenericThoughtStep(step) ==
    LET confidence == GenericDetermineConfidence(step)
    IN IF confidence = AttributeError
       THEN [status |-> AttributeError]
       ELSE [status |-> "ok",
             thought |-> DictGet(step, "thought", "Unknown thought"),
             reasoning |-> DictGet(step, "reasoning", "No reasoning provided"),
             confidence |-> confidence,
             supporting_evidence |-> DictGet(step, "evidence", EmptyMap),
             alternatives_considered |-> DictGet(step, "alternatives", <<>>)]

RECURSIVE GenericStepsFrom(_, _)
GenericStepsFrom(source, n) ==
    IF n = 0 THEN <<>>
    ELSE Append(GenericStepsFrom(source, n - 1), GenericThoughtStep(source[n]))

(***************************************************************************)
(* GenericAgentAdapter.convert_to_decision_path.  agent_output is          *)
(* [type |-> "dict", value |-> the dict], [type |-> "str", value |->       *)
(* [text |-> the string]] or a value of another type.                      *)
(***************************************************************************)
ConvertGeneric(agent_output) ==
    IF agent_output.type = "dict"
    THEN LET d == agent_output.value
             source == DictGet(d, "steps", <<>>)
             steps == GenericStepsFrom(source, Len(source))
             with_steps == [NewDecisionPath EXCEPT !.steps = steps]
         IN IF \E i \in 1..Len(steps) : steps[i].status = AttributeError
            THEN Raised(AttributeError)
            ELSE IF "decision" \in DOMAIN d
            THEN Returned([with_steps EXCEPT
                     !.final_decision = d.decision,
                     !.confidence_score =
                         DictGet(d, "confidence", [num |-> 0, den |-> 1]),
                     !.reasoning_chain = DictGet(d, "reasoning", EmptyMap)])
            ELSE Returned(with_steps)
    ELSE IF agent_output.type = "str"
    THEN Returned([NewDecisionPath EXCEPT
             !.steps = << [status |-> "ok",
                           thought |-> "Direct Response",
                           reasoning |-> agent_output.value.text,
                           confidence |-> "MEDIUM",
                           supporting_evidence |-> EmptyMap,
                           alternatives_considered |-> <<>>] >>,
             !.final_decision = agent_output.value.text,
             !.confidence_score = [num |-> 1, den |-> 2]])
    ELSE Returned(NewDecisionPath)

(***************************************************************************)
(* EnhancedAgent.analyze_task, lines 88-96: the final-decision fields from *)
(* the text of the last response.                                          *)
(***************************************************************************)
FinalFields(path, decision_text, reasoning_chain) ==
    LET parsed_decision == ParseFinalDecision(decision_text, Len(decision_text))
    IN [path EXCEPT
          !.final_decision = parsed_decision.decision,
          !.confidence_score = parsed_decision.confidence,
          !.reasoning_chain =
              [reasoning_chain EXCEPT
                  !.final_reasoning = parsed_decision.reasoning]]

NoChain ==
    [initial_analysis |-> <<>>, alternatives |-> <<>>, tradeoffs |-> <<>>,
     final_reasoning |-> <<>>]

(***************************************************************************)
(* The confidence score of the path each adapter produces, for the         *)
(* confidence its source carries.                                          *)
(***************************************************************************)
ScoreAtoms == Digits \cup {".", "-", "h"}

ScoreTexts == UNION {[1..n -> ScoreAtoms] : n \in 0..MaxText}

\* The texts of the last response: no Confidence line, one, and the format
\* of the prompt, also with a second Confidence line.
DecisionTexts ==
    {<<>>}
      \cup {<<Line("Confidence:", t)>> : t \in ScoreTexts}
      \cup { << Line("START_DECISION", <<>>),
                Line("Decision:", <<" ", "h">>),
                Line("Confidence:", <<" ", "0", ".", "8">>),
                Line("Reasoning:", <<" ", "h">>),
                Line("END_DECISION", <<>>) >>,
             << Line("Confidence:", <<"0", ".", "8">>),
                Line("Confidence:", <<"8", "0">>) >> }

\* The confidence attribute of a framework's output: numbers from -1 to 2
\* in hundredths.
FrameworkScores ==
    {[num |-> n, den |-> 100] : n \in (0 - MaxConfidence)..(2 * MaxConfidence)}

SwarmResults ==
    {[result |-> "r1", confidence |-> c] : c \in FrameworkScores}
        \cup {[result |-> "r1"], [metrics |-> EmptyMap]}

GenericResults ==
    {[type |-> "dict", value |-> [decision |-> "d1", confidence |-> c]] :
        c \in FrameworkScores}
        \cup {[type |-> "dict", value |-> [decision |-> "d1"]],
              [type |-> "dict", value |-> [answer |-> "d1"]],
              [type |-> "str", value |-> [text |-> "d1"]],
              [type |-> "list", value |-> [items |-> <<>>]]}

InitScore ==
    /\ InitObserver
    /\ wf = WfIdle
    /\ conv \in {[op |-> "source", adapter |-> "enhanced",
                   source |-> [decision_text |-> t]] : t \in DecisionTexts}
          \cup {[op |-> "source", adapter |-> "swarm", source |-> o] :
                    o \in SwarmResults}
          \cup {[op |-> "source", adapter |-> "generic", source |-> o] :
                    o \in GenericResults}

Converted(out) ==
    /\ conv' = [op |-> "path", adapter |-> conv.adapter,
                source |-> conv.source, out |-> out]
    /\ UNCHANGED <<observations, current_session, now, scopes, result, wf>>

EnhancedFinalDecision ==
    /\ conv.op = "source" /\ conv.adapter = "enhanced"
    /\ Converted(Returned(FinalFields(NewDecisionPath, conv.source.decision_text,
                                     NoChain)))

SwarmConvert ==
    /\ conv.op = "source" /\ conv.adapter = "swarm"
    /\ Converted(ConvertSwarm(conv.source))

GenericConvert ==
    /\ conv.op = "source" /\ conv.adapter = "generic"
    /\ Converted(ConvertGeneric(conv.source))

NextScore == EnhancedFinalDecision \/ SwarmConvert \/ GenericConvert

SpecScore == InitScore /\ [][NextScore]_vars

(***************************************************************************)
(* C22: every Decision Path produced by an adapter (EnhancedAgent from the *)
(* parsed final-decision text, SwarmAdapter and GenericAgentAdapter from   *)
(* the framework output) has a confidence score in [0, 1], whatever        *)
(* confidence the source carries.                                          *)
(***************************************************************************)
C22_ScoreInUnitInterval ==
    conv.op = "path" /\ conv.out.status = "ok" =>
        LET score == conv.out.path.confidence_score
        IN /\ score.den > 0
           /\ 0 <= score.num
           /\ score.num <= score.den

(***************************************************************************)
(* The steps of a Decision Path: DecisionPath.add_step on a path of the    *)
(* core, and the step loops of the two adapters on sources of up to        *)
(* MaxSteps steps.                                                         *)
(***************************************************************************)
MaxSteps == 3

\* Steps of an execution path: with a numeric confidence, without one, with
\* alternatives, and with a confidence that is None.
PathStepChoices ==
    { [action |-> "a1", confidence |-> [num |-> 30]],
      [action |-> "a2"],
      [action |-> "a3", confidence |-> [num |-> 80],
       considered_actions |-> <<[name |-> "a2"]>>],
      [action |-> "a4", confidence |-> PyNone] }

\* Steps of a generic agent's dict: with a label, without one, with a
\* confidence that is a number.
GenericStepChoices ==
    { [thought |-> "t1", confidence |-> [label |-> "high"]],
      [thought |-> "t2"],
      [thought |-> "t3", confidence |-> [label |-> "sure"]],
      [thought |-> "t4", confidence |-> [num |-> 80]] }

StepLists(choices) == UNION {[1..n -> choices] : n \in 0..MaxSteps}

\* add_step arguments (name, inputs, outputs, reasoning).
AddStepArgs ==
    { <<"s1", [task |-> "t1"], [result |-> "r1"], PyNone>>,
      <<"s2", [task |-> "t1"], [result |-> "r2"], [why |-> "w1"]>> }

InitSteps ==
    /\ InitObserver
    /\ wf = WfIdle
    /\ conv \in {[op |-> "steps", steps |-> <<>>]}
          \cup {[op |-> "source", adapter |-> "swarm",
                 source |-> [execution_path |-> p]] :
                    p \in StepLists(PathStepChoices)}
          \cup {[op |-> "source", adapter |-> "generic",
                 source |-> [type |-> "dict", value |-> [steps |-> p]]] :
                    p \in StepLists(GenericStepChoices)}

(***************************************************************************)
(* DecisionPath.add_step                                                   *)
(***************************************************************************)
AddStep(name, inputs, outputs, reasoning) ==
    /\ conv.op = "steps"
    /\ Len(conv.steps) < MaxSteps
    /\ conv' = [conv EXCEPT !.steps =
                  Append(@, [name |-> name, timestamp |-> now,
                             inputs |-> inputs, outputs |-> outputs,
                             reasoning |-> reasoning])]
    /\ UNCHANGED <<observations, current_session, now, scopes, result, wf>>

NextSteps ==
    \/ \E a \in AddStepArgs : AddStep(a[1], a[2], a[3], a[4])
    \/ SwarmConvert
    \/ GenericConvert

SpecSteps == InitSteps /\ [][NextSteps]_vars

\* The steps of the source a conversion starts from.
SourceSteps ==
    IF conv.adapter = "swarm" THEN conv.source.execution_path
    ELSE conv.source.value.steps

\* The label the adapter gives the step it makes of the source step.
LabelOf(adapter, step) ==
    IF adapter = "swarm" THEN DictGet(step, "action", "Unknown action")
    ELSE DictGet(step, "thought", "Unknown thought")

(***************************************************************************)
(* C23: the steps of a Decision Path preserve insertion order: every       *)
(* add_step extends the sequence by exactly one element, at the end, and   *)
(* leaves the earlier steps as they were; an adapter conversion that       *)
(* returns yields as many steps as the source has, in the source's order.  *)
(***************************************************************************)
C23_StepsKeepInsertionOrder ==
    [][/\ conv.op = "steps" /\ conv'.op = "steps" =>
            /\ Len(conv'.steps) = Len(conv.steps) + 1
            /\ IsPrefix(conv.steps, conv'.steps)
            /\ \E a \in AddStepArgs :
                 /\ AddStep(a[1], a[2], a[3], a[4])
                 /\ conv'.steps[Len(conv'.steps)].name = a[1]
                 /\ conv'.steps[Len(conv'.steps)].outputs = a[3]
       /\ conv.op = "source" /\ conv'.op = "path" /\ conv'.out.status = "ok" =>
            /\ Len(conv'.out.path.steps) = Len(SourceSteps)
            /\ \A i \in 1..Len(SourceSteps) :
                 conv'.out.path.steps[i].thought
                   = LabelOf(conv.adapter, SourceSteps[i])]_vars

\* A swarm execution path of three different steps has been converted.
C23_Witness ==
    /\ conv.op = "path"
    /\ conv.adapter = "swarm"
    /\ conv.out.status = "ok"
    /\ Len(conv.out.path.steps) = 3
    /\ conv.out.path.steps[1].thought = "a3"
    /\ conv.out.path.steps[2].thought = "a1"
    /\ conv.out.path.steps[3].thought = "a2"

(***************************************************************************)
(* EnhancedAgent._determine_confidence.  A response is a sequence of words *)
(* here; the four words looked for contain no blank, so each of them is in *)
(* the text exactly when it is inside one of the words.                    *)
(***************************************************************************)
Words ==
    {"uncertain", "Unclear", "UNCERTAIN", "likely", "Probably", "unlikely",
     "clear", "good"}

\* str.lower() of a word.
Lower(word) ==
    CASE word = "Unclear" -> "unclear"
      [] word = "UNCERTAIN" -> "uncertain"
      [] word = "Probably" -> "probably"
      [] OTHER -> word

\* Those of the four words that are substrings of the word.
KeysIn(word) ==
    CASE word = "uncertain" -> {"uncertain"}
      [] word = "unclear" -> {"unclear"}
      [] word = "likely" -> {"likely"}
      [] word = "unlikely" -> {"likely"}
      [] word = "probably" -> {"probably"}
      [] OTHER -> {}

\* key in text
InText(key, text) == \E i \in 1..Len(text) : key \in KeysIn(text[i])

LowerText(text) == [i \in 1..Len(text) |-> Lower(text[i])]

\* Mutant of DetermineConfidence: the text is searched as it is, without
\* lower().
DetermineConfidenceCaseSensitive(text) ==
    IF InText("uncertain", text) \/ InText("unclear", text) THEN "LOW"
    ELSE IF InText("likely", text) \/ InText("probably", text) THEN "MEDIUM"
    ELSE "HIGH"

DetermineConfidence(text) ==
    IF InText("uncertain", LowerText(text)) \/ InText("unclear", LowerText(text))
    THEN "LOW"
    ELSE IF InText("likely", LowerText(text)) \/ InText("probably", LowerText(text))
    THEN "MEDIUM"
    ELSE "HIGH"

ResponseTexts == UNION {[1..n -> Words] : n \in 0..MaxText}

InitClassifier ==
    /\ InitObserver
    /\ wf = WfIdle
    /\ conv \in {[op |-> "text", text |-> t] : t \in ResponseTexts}

Classify ==
    /\ conv.op = "text"
    /\ conv' = [op |-> "confidence", text |-> conv.text,
                out |-> DetermineConfidence(conv.text)]
    /\ UNCHANGED <<observations, current_session, now, scopes, result, wf>>

NextClassifier == Classify

SpecClassifier == InitClassifier /\ [][NextClassifier]_vars

\* The hedging words and the qualifying words of the vocabulary, in the
\* letter cases they occur in.
HedgingWords == {"uncertain", "Unclear", "UNCERTAIN"}
QualifyingWords == {"likely", "Probably", "unlikely"}

HasWord(text, words) == \E i \in 1..Len(text) : text[i] \in words

(***************************************************************************)
(* C24: the lexical confidence classifier always returns exactly one of    *)
(* LOW, MEDIUM, HIGH; it returns LOW for every text that contains          *)
(* "uncertain" or "unclear", in any letter case and whatever other words   *)
(* the text contains, and HIGH for a text that contains no hedging or      *)
(* qualifying word.                                                        *)
(***************************************************************************)
C24_LexicalClassifier ==
    conv.op = "confidence" =>
        /\ conv.out \in {"LOW", "MEDIUM", "HIGH"}
        /\ HasWord(conv.text, HedgingWords) => conv.out = "LOW"
        /\ ~HasWord(conv.text, HedgingWords \cup QualifyingWords) =>
             conv.out = "HIGH"

\* A text with a qualifying word and an upper-case hedging word has been
\* classified LOW.
C24_Witness ==
    /\ conv.op = "confidence"
    /\ conv.text = <<"Probably", "good", "UNCERTAIN">>
    /\ conv.out = "LOW"

\* This step makes the decisions list of the stored session k longer.
AppendsTo(k) ==
    /\ k \in DOMAIN observations
    /\ k \in DOMAIN observations'
    /\ Len(observations'[k].decisions) > Len(observations[k].decisions)

(***************************************************************************)
(* C25: in every reachable state, if the current pointer is set then it    *)
(* names a session that exists in the store and whose end timestamp is     *)
(* unset; consequently track_decision never appends a record to a session  *)
(* whose end timestamp is set.                                             *)
(***************************************************************************)
C25_CurrentIsOpen ==
    /\ [](current_session # NoneId => IsOpen(current_session))
    /\ [][\A k \in DOMAIN observations :
             AppendsTo(k) => IsOpen(k) /\ observations'[k].end_time = NoTime]_vars

\* A decision has been recorded in the current session while another
\* session of the store is closed.
C25_Witness ==
    /\ result.op = "track"
    /\ result.status = "ok"
    /\ current_session # NoneId
    /\ Len(observations[current_session].decisions) > 0
    /\ \E k \in DOMAIN observations : IsClosed(k)

(***************************************************************************)
(* One flow that nests session scopes, up to MaxNesting deep.              *)
(***************************************************************************)
NestingFlow == 1

NestedEnter(session_name) ==
    /\ Len(scopes[NestingFlow]) < MaxNesting
    /\ SessionEnterCode(NestingFlow, session_name)

NextNesting ==
    \/ Tick /\ UNCHANGED aux
    \/ \E n \in NameArgs : NestedEnter(n) /\ UNCHANGED aux
    \/ \E how \in ExitKinds : SessionExit(NestingFlow, how) /\ UNCHANGED aux
    \/ \E a \in TrackArgs :
          TrackDecision(NestingFlow, a[1], a[2], a[3], a[4]) /\ UNCHANGED aux

SpecNesting == Init /\ [][NextNesting]_vars

(***************************************************************************)
(* C26: the exit of any session scope leaves the current pointer empty,    *)
(* also when an enclosing session's scope is still active: after a nested  *)
(* inner scope has exited, the outer session is not made current again,    *)
(* and a track_decision issued in the outer scope fails with the           *)
(* no-active-session error instead of being recorded in the outer session. *)
(***************************************************************************)
C26_NestedExitClearsCurrent ==
    [][/\ ExitStep(NestingFlow) => current_session' = NoneId
       /\ (/\ result.op = "exit"
           /\ Len(scopes[NestingFlow]) > 0
           /\ TrackStep)
          => /\ result'.status = "RuntimeError"
             /\ observations' = observations]_vars

\* An inner scope has exited and closed its session, the outer scope is
\* still active with its session open, and a track_decision has failed.
C26_Witness ==
    /\ result.op = "track"
    /\ result.status = "RuntimeError"
    /\ Len(scopes[NestingFlow]) = 1
    /\ IsOpen(Top(NestingFlow))
    /\ \E k \in DOMAIN observations : k # Top(NestingFlow) /\ IsClosed(k)

(***************************************************************************)
(* One run of wrapped_run with nothing else using the observer, over every *)
(* list workflow.agents of up to MaxAgents agents.                         *)
(***************************************************************************)
AgentKinds == {WorkflowAgents[j] : j \in 1..Len(WorkflowAgents)}

AgentLists == UNION {[1..n -> AgentKinds] : n \in 0..MaxAgents}

InitRun ==
    /\ InitObserver
    /\ wf \in {[WfIdle EXCEPT !.agents = a] : a \in AgentLists}
    /\ conv = NoConv

\* The task running wrapped_run is cancelled while it is suspended at an
\* await: CancelledError is no Exception, neither except block handles
\* it, and the with statement is left.
CancelledError == "cancelled"

WfCancelled ==
    /\ wf.pc \in {"await_agent", "await_run"}
    /\ WfLeave(observations, CancelledError, "")

NextRun ==
    \/ WfStart
    \/ WfAgentReturns
    \/ WfAgentRaises
    \/ WfRunReturns
    \/ WfRunRaises
    \/ WfCancelled
    \/ Tick /\ UNCHANGED aux

SpecRun == InitRun /\ [][NextRun]_vars

\* The record r is the successful Decision Record of the agent named name.
IsSuccessOf(r, name) ==
    /\ r.agent_id = name
    /\ r.outputs = [result |-> "r1"]
    /\ Succeeded(r)

\* The record r is the failed Decision Record of the workflow itself.
IsWorkflowFailure(r) ==
    /\ r.agent_id = "workflow"
    /\ r.outputs = [error |-> AgentError]
    /\ r.metadata = [success |-> FALSE]

\* The agents of the list that have a run operation, in the list's order.
WithRun(agents) == SelectSeq(agents, LAMBDA a : a.has_run)

\* The sequence recs is one successful record per agent of the list, in
\* order, followed by the failed record of the agent named name and the
\* failed record of the workflow.
SuccessesThenTwoFailures(recs, agents, name) ==
    /\ Len(recs) = Len(agents) + 2
    /\ \A j \in 1..Len(agents) : IsSuccessOf(recs[j], agents[j].agent_name)
    /\ IsFailureOf(recs[Len(agents) + 1], name)
    /\ IsWorkflowFailure(recs[Len(agents) + 2])

\* This step is the scope exit of a run whose agent wf.i raised.
AgentRaisedStep ==
    wf.pc = "await_agent" /\ wf'.pc = "done" /\ wf'.error = AgentError

\* No agent after wf.i has been run, nor the workflow's own run.
NothingRunAfter == \A c \in 1..Len(wf'.calls) : wf'.calls[c] \in 1..wf.i

(***************************************************************************)
(* C27: in an observed workflow run that is not interleaved with another   *)
(* session, if the k-th agent (in workflow.agents order) is the first      *)
(* whose run raises, then at scope exit the session holds k-1 successful   *)
(* records for the agents before it, followed by exactly two failed        *)
(* records (one with the failing agent's id, then one with agent id        *)
(* 'workflow'); no later agent is run and the original workflow run is     *)
(* never invoked.                                                          *)
(***************************************************************************)
C27_FirstFailureEndsRun ==
    [][AgentRaisedStep =>
         /\ SuccessesThenTwoFailures(observations'[scopes[1][1]].decisions,
                                     SubSeq(wf.agents, 1, wf.i - 1),
                                     wf.agents[wf.i].agent_name)
         /\ NothingRunAfter
         /\ wf' = Finished(AgentError, "")]_vars

(***************************************************************************)
(* C27, amended: the successful records are those of the agents before     *)
(* the k-th that have a run operation, one each, in order; an agent        *)
(* without a run operation is skipped and has no record.                   *)
(***************************************************************************)
C27_FirstFailureEndsRunAmended ==
    [][AgentRaisedStep =>
         /\ SuccessesThenTwoFailures(observations'[scopes[1][1]].decisions,
                                     WithRun(SubSeq(wf.agents, 1, wf.i - 1)),
                                     wf.agents[wf.i].agent_name)
         /\ NothingRunAfter
         /\ wf' = Finished(AgentError, "")]_vars

\* A run over an agent, an object without run and another agent has ended
\* by the failure of the third; its session holds three records.
C27_Witness ==
    /\ wf.pc = "done"
    /\ wf.error = AgentError
    /\ wf.agents = WorkflowAgents
    /\ wf.calls = <<1, 3>>
    /\ \E k \in DOMAIN observations :
         /\ IsClosed(k)
         /\ Len(observations[k].decisions) = 3

\* This step calls the workflow's own run.
RunInvokedStep == wf.pc # "await_run" /\ wf'.pc = "await_run"

\* The sequence recs is one successful record per agent of the list, in
\* order.
OneSuccessEach(recs, agents) ==
    /\ Len(recs) = Len(agents)
    /\ \A j \in 1..Len(agents) : IsSuccessOf(recs[j], agents[j].agent_name)

(***************************************************************************)
(* C28: in an observed workflow run in which no agent raises and which is  *)
(* not interleaved with another session, the session holds exactly one     *)
(* successful record per agent that has a run operation, in                *)
(* workflow.agents order, all of them appended before the original         *)
(* workflow run is invoked; when the wrapped run returns, the session's    *)
(* end timestamp is set and the current pointer is empty.                  *)
(***************************************************************************)
C28_SuccessfulRun ==
    [][/\ RunInvokedStep =>
            OneSuccessEach(observations'[scopes'[1][1]].decisions,
                           WithRun(wf.agents))
       /\ (wf.pc = "await_run" /\ wf'.returned = "result") =>
            /\ OneSuccessEach(observations'[scopes[1][1]].decisions,
                              WithRun(wf.agents))
            /\ observations'[scopes[1][1]].end_time = now
            /\ current_session' = NoneId
            /\ wf'.pc = "done"
            /\ wf'.error = ""]_vars

\* A run over an agent, an object without run and another agent has
\* returned; its session is closed and holds two records.
C28_Witness ==
    /\ wf.pc = "done"
    /\ wf.returned = "result"
    /\ wf.agents = WorkflowAgents
    /\ wf.calls = <<1, 3, 0>>
    /\ \E k \in DOMAIN observations :
         /\ IsClosed(k)
         /\ Len(observations[k].decisions) = 2

(***************************************************************************)
(* EnhancedAgent._parse_alternatives.  Python's dicts are objects: heap is *)
(* the sequence of the dicts created so far, current_alt and the elements  *)
(* of alternatives are references to them (indices of heap).  A dict is a  *)
(* record of the keys it has and the value of each (<<>> and 0 under a key *)
(* it does not have).                                                      *)
(***************************************************************************)
EmptyDict ==
    [keys |-> {}, approach |-> <<>>, advantages |-> <<>>,
     disadvantages |-> <<>>, feasibility |-> 0]

\* The dict d after current_alt[...] = ... for a field line; any other line
\* leaves it as it is.
PutField(d, line) ==
    IF line.head = "Approach:"
    THEN [d EXCEPT !.keys = @ \cup {"approach"},
                   !.approach = Strip(line.rest)]
    ELSE IF line.head = "Advantages:"
    THEN [d EXCEPT !.keys = @ \cup {"advantages"},
                   !.advantages = Strip(line.rest)]
    ELSE IF line.head = "Disadvantages:"
    THEN [d EXCEPT !.keys = @ \cup {"disadvantages"},
                   !.disadvantages = Strip(line.rest)]
    ELSE IF line.head = "Feasibility:"
    THEN [d EXCEPT !.keys = @ \cup {"feasibility"},
                   !.feasibility = ParseFeasibility(line.rest).feasibility]
    ELSE d

\* The loop over lines[1..n]: the heap, the reference current_alt and the
\* list of references alternatives after it.
RECURSIVE AlternativesLoop(_, _)
AlternativesLoop(lines, n) ==
    IF n = 0
    THEN [heap |-> <<EmptyDict>>, current_alt |-> 1, alternatives |-> <<>>]
    ELSE LET before == AlternativesLoop(lines, n - 1)
             line == lines[n]
         IN IF line.head = "START_ALTERNATIVE"
            THEN [before EXCEPT !.heap = Append(@, EmptyDict),
                                !.current_alt = Len(before.heap) + 1]
            ELSE IF line.head = "END_ALTERNATIVE"
            THEN [before EXCEPT !.alternatives = Append(@, before.current_alt)]
            ELSE [before EXCEPT !.heap[before.current_alt] = PutField(@, line)]

\* The list returned: refs are the objects it holds, out what each of them
\* is when the function returns.
ParseAlternatives(lines) ==
    LET end == AlternativesLoop(lines, Len(lines))
    IN [refs |-> end.alternatives,
        out |-> [j \in 1..Len(end.alternatives) |->
                   end.heap[end.alternatives[j]]]]

AlternativeLines ==
    {Line("START_ALTERNATIVE", <<>>),
     Line("END_ALTERNATIVE", <<>>),
     Line("Approach:", <<" ", "a">>),
     Line("Approach:", <<" ", "b">>),
     Line("Advantages:", <<" ", "c">>),
     Line("Disadvantages:", <<" ", "d">>),
     Line("Feasibility:", <<" ", "8", "/", "1", "0">>),
     Line("", <<"h">>)}

AlternativeTexts == UNION {[1..n -> AlternativeLines] : n \in 0..MaxLines}

InitAlternatives ==
    /\ InitObserver
    /\ wf = WfIdle
    /\ conv \in {[op |-> "alternatives_text", text |-> t] : t \in AlternativeTexts}

ParseAlternativesCall ==
    /\ conv.op = "alternatives_text"
    /\ conv' = [op |-> "alternatives", text |-> conv.text,
                refs |-> ParseAlternatives(conv.text).refs,
                out |-> ParseAlternatives(conv.text).out]
    /\ UNCHANGED <<observations, current_session, now, scopes, result, wf>>

NextAlternatives == ParseAlternativesCall

SpecAlternatives == InitAlternatives /\ [][NextAlternatives]_vars

\* The positions of the END_ALTERNATIVE lines, and the j-th of them.
EndLines(lines) == {e \in 1..Len(lines) : lines[e].head = "END_ALTERNATIVE"}

NthEnd(lines, j) ==
    CHOOSE e \in EndLines(lines) :
        Cardinality({x \in EndLines(lines) : x <= e}) = j

\* The START_ALTERNATIVE line that opens the block closed at line e: the
\* last one before e, with no END_ALTERNATIVE in between; 0 if there is
\* none.
OwnStart(lines, e) ==
    LET starts == {b \in 1..(e - 1) :
                     /\ lines[b].head = "START_ALTERNATIVE"
                     /\ \A x \in (b + 1)..(e - 1) :
                          lines[x].head \notin {"START_ALTERNATIVE",
                                                "END_ALTERNATIVE"}}
    IN IF starts = {} THEN 0 ELSE CHOOSE b \in starts : TRUE

\* The record made of the field lines b+1 .. e-1.
RECURSIVE FieldsBetween(_, _, _)
FieldsBetween(lines, b, e) ==
    IF e - 1 <= b THEN EmptyDict
    ELSE PutField(FieldsBetween(lines, b, e - 1), lines[e - 1])

(***************************************************************************)
(* C30: for every sequence of input lines, _parse_alternatives returns one *)
(* record per END_ALTERNATIVE line, in order, and each returned record     *)
(* carries exactly the field values of the lines between its own           *)
(* START_ALTERNATIVE and END_ALTERNATIVE markers: a field line that comes  *)
(* after an END_ALTERNATIVE (or before the first START_ALTERNATIVE) does   *)
(* not change any record already returned, and two returned records never  *)
(* share later updates (they are different objects).                       *)
(***************************************************************************)
C30_AlternativesAreOwnBlocks ==
    conv.op = "alternatives" =>
        /\ Len(conv.out) = Cardinality(EndLines(conv.text))
        /\ \A j \in 1..Len(conv.out) :
             LET e == NthEnd(conv.text, j)
                 b == OwnStart(conv.text, e)
             IN b # 0 => conv.out[j] = FieldsBetween(conv.text, b, e)
        /\ \A j, k \in 1..Len(conv.refs) : j # k => conv.refs[j] # conv.refs[k]

(***************************************************************************)
(* EnhancedAgent.analyze_task: four calls of _get_llm_response, each of    *)
(* which returns the content of the model's answer or, when the client     *)
(* raises, the text of the error.  A text is its sequence of lines; the    *)
(* words _determine_confidence searches are those of the lines' rests, as  *)
(* no marker or field name contains one of them.                           *)
(***************************************************************************)
RECURSIVE TextWords(_, _)
TextWords(text, n) ==
    IF n = 0 THEN <<>> ELSE TextWords(text, n - 1) \o text[n].rest

\* str(e) of the exceptions the client raises.
LlmErrors == {"timeout", "unclear"}

\* The contents the model answers with: free text, a list of alternatives
\* and a final decision in the formats the prompts ask for.
LlmContents ==
    { << Line("", <<"good">>) >>,
      << Line("", <<"Probably">>), Line("", <<"UNCERTAIN">>) >>,
      << Line("START_ALTERNATIVE", <<>>),
         Line("Approach:", <<" ", "a">>),
         Line("Feasibility:", <<" ", "8", "/", "1", "0">>),
         Line("END_ALTERNATIVE", <<>>) >>,
      << Line("START_DECISION", <<>>),
         Line("Decision:", <<" ", "h">>),
         Line("Confidence:", <<" ", "0", ".", "8">>),
         Line("Reasoning:", <<" ", "likely">>),
         Line("END_DECISION", <<>>) >> }

\* Mutant of ErrorText: a failed call gives the empty text.
ErrorTextEmpty(e) == <<>>

\* f"Error: {str(e)}"
ErrorText(e) == << Line("", <<"Error:", " ", e>>) >>

\* One ThoughtStep of analyze_task.
AnalysisStep(thought, reasoning, response, supporting_evidence, alternatives_considered) ==
    [thought |-> thought,
     reasoning |-> reasoning,
     confidence |-> DetermineConfidence(TextWords(response, Len(response))),
     supporting_evidence |-> supporting_evidence,
     alternatives_considered |-> alternatives_considered]

\* analyze_task has built the DecisionPath and is about to make the call
\* numbered pc; calls is what each call made so far did.
AnalyzeStart ==
    [op |-> "analyze", pc |-> 1, decision |-> NewDecisionPath,
     initial_analysis |-> <<>>, alternatives |-> <<>>,
     tradeoff_analysis |-> <<>>, final_decision |-> <<>>, calls |-> <<>>]

InitAnalyze ==
    /\ InitObserver
    /\ wf = WfIdle
    /\ conv = AnalyzeStart

\* analyze_task from the return of the call numbered conv.pc, which gave
\* response, up to the next call or the return (pc 5): the locals and the
\* path afterwards.
AnalyzeStage(response, call) ==
         IF conv.pc = 1
         THEN [conv EXCEPT
                 !.pc = 2,
                 !.initial_analysis = response,
                 !.calls = Append(@, call),
                 !.decision.steps =
                     Append(@, AnalysisStep("Initial Problem Analysis",
                                            response, response,
                                            [context |-> EmptyMap], <<>>))]
         ELSE IF conv.pc = 2
         THEN [conv EXCEPT
                 !.pc = 3,
                 !.alternatives = response,
                 !.calls = Append(@, call),
                 !.decision.steps =
                     Append(@, AnalysisStep(
                                 "Alternative Solutions",
                                 << Line("", <<"Exploring different approaches">>) >>,
                                 response,
                                 [initial_analysis |-> conv.initial_analysis],
                                 ParseAlternatives(response).out))]
         ELSE IF conv.pc = 3
         THEN [conv EXCEPT
                 !.pc = 4,
                 !.tradeoff_analysis = response,
                 !.calls = Append(@, call),
                 !.decision.steps =
                     Append(@, AnalysisStep("Trade-off Analysis",
                                            response, response,
                                            [alternatives |-> conv.alternatives],
                                            <<>>))]
         ELSE [conv EXCEPT
                 !.pc = 5,
                 !.final_decision = response,
                 !.calls = Append(@, call),
                 !.decision =
                     FinalFields(@, response,
                                 [initial_analysis |-> conv.initial_analysis,
                                  alternatives |-> conv.alternatives,
                                  tradeoffs |-> conv.tradeoff_analysis,
                                  final_reasoning |-> <<>>])]

\* _get_llm_response: the client returns a completion.
LlmReturns(content) ==
    /\ conv.op = "analyze"
    /\ conv.pc \in 1..4
    /\ conv' = AnalyzeStage(content, [raised |-> FALSE, error |-> ""])
    /\ UNCHANGED <<observations, current_session, now, scopes, result, wf>>

\* _get_llm_response: the client raises; the except block returns the text
\* of the error.
LlmRaises(e) ==
    /\ conv.op = "analyze"
    /\ conv.pc \in 1..4
    /\ conv' = AnalyzeStage(ErrorText(e), [raised |-> TRUE, error |-> e])
    /\ UNCHANGED <<observations, current_session, now, scopes, result, wf>>

NextAnalyze ==
    \/ \E content \in LlmContents : LlmReturns(content)
    \/ \E e \in LlmErrors : LlmRaises(e)

\* Every call of the client comes back: it returns or it raises.
SpecAnalyze == InitAnalyze /\ [][NextAnalyze]_vars /\ WF_vars(NextAnalyze)

\* analyze_task has returned conv.decision.
AnalyzeReturned == conv.op = "analyze" /\ conv.pc = 5

\* The response texts of the four stages, as the returned path shows them.
StageTexts ==
    << conv.decision.steps[1].reasoning,
       conv.decision.reasoning_chain.alternatives,
       conv.decision.steps[3].reasoning,
       conv.final_decision >>

(***************************************************************************)
(* C29: EnhancedAgent.analyze_task always terminates with a Decision Path  *)
(* of exactly three steps in the fixed order Initial Problem Analysis,     *)
(* Alternative Solutions, Trade-off Analysis, followed by the              *)
(* final-decision fields, for every combination of succeeding and failing  *)
(* language-model calls: a failed call never raises out of analyze_task,   *)
(* its error text is used as the response text of that stage.              *)
(***************************************************************************)
C29_AnalyzeTaskShape ==
    /\ <>AnalyzeReturned
    /\ [](AnalyzeReturned =>
            /\ Len(conv.decision.steps) = 3
            /\ [j \in 1..3 |-> conv.decision.steps[j].thought]
                 = <<"Initial Problem Analysis", "Alternative Solutions",
                     "Trade-off Analysis">>
            /\ DOMAIN conv.decision.reasoning_chain
                 = {"initial_analysis", "alternatives", "tradeoffs",
                    "final_reasoning"}
            /\ conv.decision.final_decision
                 = ParseFinalDecision(conv.final_decision,
                                      Len(conv.final_decision)).decision
            /\ conv.decision.confidence_score
                 = ParseFinalDecision(conv.final_decision,
                                      Len(conv.final_decision)).confidence
            /\ Len(conv.calls) = 4
            /\ \A j \in 1..4 :
                 conv.calls[j].raised =>
                   StageTexts[j] = << Line("", <<"Error:", " ", conv.calls[j].error>>) >>)

\* analyze_task has returned after its second and fourth calls failed.
C29_Witness ==
    /\ AnalyzeReturned
    /\ [j \in 1..4 |-> conv.calls[j].raised] = <<FALSE, TRUE, FALSE, TRUE>>
    /\ Len(conv.decision.steps) = 3

(***************************************************************************)
(* The feasibility of the alternative records of both adapters.  The scale *)
(* is the one the alternatives prompt asks the model for:                  *)
(* "Feasibility: [1-10]".                                                  *)
(***************************************************************************)
ScaleMin == 1
ScaleMax == 10

\* One alternative block, with a Feasibility line of every text and with
\* none.
BlockTexts ==
    { << Line("START_ALTERNATIVE", <<>>),
         Line("Approach:", <<" ", "a">>),
         Line("END_ALTERNATIVE", <<>>) >> }
      \cup { << Line("START_ALTERNATIVE", <<>>),
                Line("Feasibility:", <<" ">> \o t),
                Line("END_ALTERNATIVE", <<>>) >> : t \in FeasibilityTexts }

\* Steps of a swarm execution path: without considered_actions, with an
\* action that has no feasibility_score, and with every score around the
\* scale.
ScoredSteps ==
    { [action |-> "a1"],
      [action |-> "a1", considered_actions |-> <<[name |-> "a2"]>>] }
      \cup { [action |-> "a1",
              considered_actions |->
                  <<[name |-> "a2", feasibility_score |-> n]>>] :
             n \in (ScaleMin - 1)..(ScaleMax + 1) }

InitScale ==
    /\ InitObserver
    /\ wf = WfIdle
    /\ conv \in {[op |-> "alternatives_text", text |-> t] : t \in BlockTexts}
          \cup {[op |-> "swarm_step", step |-> st] : st \in ScoredSteps}

ExtractSwarmAlternativesCall ==
    /\ conv.op = "swarm_step"
    /\ conv' = [op |-> "swarm_alternatives", step |-> conv.step,
                out |-> ExtractSwarmAlternatives(conv.step)]
    /\ UNCHANGED <<observations, current_session, now, scopes, result, wf>>

NextScale == ParseAlternativesCall \/ ExtractSwarmAlternativesCall

SpecScale == InitScale /\ [][NextScale]_vars

(***************************************************************************)
(* C31: every alternative record returned by _parse_alternatives or        *)
(* _extract_swarm_alternatives has a feasibility value on the 1-10 scale   *)
(* (an integer from 1 to 10), whatever the Feasibility text or             *)
(* feasibility_score of the source is.                                     *)
(***************************************************************************)
C31_FeasibilityOnScale ==
    /\ conv.op = "alternatives" =>
         \A j \in 1..Len(conv.out) :
            /\ "feasibility" \in conv.out[j].keys
            /\ conv.out[j].feasibility \in ScaleMin..ScaleMax
    /\ conv.op = "swarm_alternatives" =>
         \A j \in 1..Len(conv.out) :
            conv.out[j].feasibility \in ScaleMin..ScaleMax

====
